---- MODULE Spec2Model ----
(***************************************************************************)
(* A model of torrt's qBittorrent RPC session (torrt/rpc/qbittorrent.py)   *)
(* and of the anilibria.tv release selector (torrt/trackers/anilibria.py). *)
(*                                                                         *)
(* A handler of the RPC session talks to a backend whose answers the       *)
(* session does not control.  Every handler is therefore modelled as an    *)
(* operator that yields the SET of its possible outcomes, one per sequence *)
(* of backend answers; the action of the handler picks one of them.  An    *)
(* outcome holds the session as the handler leaves it, the exception that  *)
(* escaped (NoException when it returned) and the value returned.          *)
(*                                                                         *)
(* Four specifications: Spec, the session called by one thread; SpecThreads,*)
(* the session shared by two threads, step by step; SpecSelector, the      *)
(* release selector on the answers of the tracker; SpecSanitizer,          *)
(* sanitize_quality on strings.                                            *)
(***************************************************************************)
EXTENDS Integers, Sequences, FiniteSets, TLC

VARIABLES
    cookies,        \* QBittorrentRPC.cookies: the stored session token
    url,            \* QBittorrentRPC.url
    user,           \* QBittorrentRPC.user
    password,       \* QBittorrentRPC.password
    op,             \* the last public method called on the session, with its arguments
    pre,            \* the session fields as they were when that method was called
    reqs,           \* the HTTP exchanges of that call, in order: <<[req, resp], ...>>
    logs,           \* the number of LOGGER.error records that call emitted
    result,         \* how that call ended: [raised, value]
    logged_in,      \* history: some login() has returned without raising
    callers,        \* the threads that share the session: where each one stands
    quality_prefs,  \* AnilibriaTracker.quality_prefs
    tracker_op,     \* the last public method called on the tracker object
    json,           \* the tracker's answer to the last call of the selector
    available,      \* what find_available_qualities made of it: [raised, value]
    download_link,  \* what get_download_link made of it: [raised, value]
    raw_quality,    \* an argument of sanitize_quality
    other_quality,  \* a second argument, another spelling of the first
    sanitized       \* what sanitize_quality made of them, and of its own result

rpcVars == <<cookies, url, user, password, op, pre, reqs, logs, result, logged_in, callers>>

trackerVars == <<quality_prefs, tracker_op, json, available, download_link>>

sanitizeVars == <<raw_quality, other_quality, sanitized>>

vars == <<rpcVars, trackerVars, sanitizeVars>>

-----------------------------------------------------------------------------
(* Bounds of the model.                                                    *)

\* The longest string sanitize_quality is called with, the qualities of the
\* tracker's releases apart.
MaxQualityLen == 2

\* The longest bulk listing the backend answers with.
MaxListing == 2

\* The most torrents a release of the tracker holds.
MaxTorrents == 2

-----------------------------------------------------------------------------
(* Values.                                                                 *)

\* A cookie jar is a set of cookie names; Python's None is a value of its own.
NoneCookies == [isNone |-> TRUE, jar |-> {}]

Jar(names) == [isNone |-> FALSE, jar |-> names]

\* Python truthiness of a cookies value: None, {} and an empty jar are falsy.
Truthy(c) == ~c.isNone /\ c.jar # {}

NoException == "NoException"

QBittorrentRPCException == "QBittorrentRPCException"

\* response.json() on a body that is no JSON document.
JSONDecodeError == "JSONDecodeError"

api_map ==
    [login                 |-> "login",
     api_version_path      |-> "version/api",
     add_torrent           |-> "command/upload",
     rem_torrent           |-> "command/delete",
     rem_torrent_with_data |-> "command/deletePerm",
     get_torrent           |-> "query/propertiesGeneral/%s",
     get_torrents          |-> "query/torrents"]

\* The templates of api_map that hold a %s conversion.
HasPlaceholder(action) == action = "get_torrent"

torrent_fields_map == [save_path |-> "download_to"]

-----------------------------------------------------------------------------
(* The backend: what the HTTP transport may answer.                        *)

\* The cookies a response may carry.  requests always hands out a jar; None
\* is what login() tests for.
CookieValues == {NoneCookies, Jar({}), Jar({"SID=a"}), Jar({"SID=b"})}

\* The torrents the backend may hold, in the order query/torrents lists them.
BackendTorrents ==
    <<[hash |-> "cc", name |-> "n-cc", save_path |-> "/dl/cc"],
      [hash |-> "aa", name |-> "n-aa", save_path |-> "/dl/aa"],
      [hash |-> "bb", name |-> "n-bb", save_path |-> "/dl/bb"]>>

Hashes == {BackendTorrents[i].hash : i \in DOMAIN BackendTorrents}

Comments == {"c1", "c2"}

\* The torrents of BackendTorrents at the positions `present`, in order.
RECURSIVE ListingOf(_, _)
ListingOf(present, i) ==
    IF i > Len(BackendTorrents) THEN <<>>
    ELSE (IF i \in present THEN <<BackendTorrents[i]>> ELSE <<>>)
             \o ListingOf(present, i + 1)

\* What a bulk listing may hold: the torrents the backend holds at the time,
\* MaxListing of them at most.
Listings ==
    {ListingOf(present, 1) :
        present \in {p \in SUBSET DOMAIN BackendTorrents : Cardinality(p) <= MaxListing}}

Response(status, text, c, json_ok, torrents, comment) ==
    [kind |-> "response", status_code |-> status, text |-> text, cookies |-> c,
     json_ok |-> json_ok, torrents |-> torrents, comment |-> comment]

\* requests raised (connection refused, timeout, ...): there is no response.
TransportError ==
    [kind |-> "exception", status_code |-> 0, text |-> "ConnectionError",
     cookies |-> NoneCookies, json_ok |-> FALSE, torrents |-> <<>>, comment |-> ""]

NoResponse ==
    [kind |-> "none", status_code |-> 0, text |-> "",
     cookies |-> NoneCookies, json_ok |-> FALSE, torrents |-> <<>>, comment |-> ""]

\* Answers that are no success whatever the endpoint: a 2xx other than 200, an
\* authorization error, and a transport failure.
Refusals ==
    {Response(204, "", Jar({}), FALSE, <<>>, ""),
     Response(403, "Forbidden", Jar({}), FALSE, <<>>, ""),
     TransportError}

\* A 200 answer whose body is no JSON document.
NotJson == Response(200, "<html>", Jar({}), FALSE, <<>>, "")

\* Every answer the backend may give to a request for `action`.
Transport(action) ==
    Refusals \cup
    CASE action = "login" ->
           {Response(200, "Ok.", c, FALSE, <<>>, "") : c \in CookieValues}
               \cup {Response(200, "Fails.", Jar({"SID=a"}), FALSE, <<>>, "")}
      [] action = "get_torrents" ->
           {Response(200, "[..]", Jar({}), TRUE, l, "") : l \in Listings}
               \cup {NotJson}
      [] action = "get_torrent" ->
           {Response(200, "{..}", Jar({}), TRUE, <<>>, c) : c \in Comments}
               \cup {NotJson}
      [] action = "api_version_path" ->
           {Response(200, "10", Jar({}), FALSE, <<>>, "")}
      [] OTHER ->
           {Response(200, "", Jar({}), FALSE, <<>>, "")}

-----------------------------------------------------------------------------
(* The session's handlers.  `self` is the session within one call:          *)
(* [cookies, url, user, password, reqs, logs, logged_in].                  *)

Outcome(self, raised, value) == [self |-> self, raised |-> raised, value |-> value]

\* One LOGGER.error record.
Logged(self) == [self EXCEPT !.logs = @ + 1]

\* `params` of a call: the document build_params makes.  action_params is
\* NoParams when the key is absent; has_data says whether 'data' is a key.
NoParams == "<absent>"

build_params(action, has_data, action_params) ==
    [action |-> action, has_data |-> has_data, action_params |-> action_params]

\* No files argument (files=None).
NoFiles == {}

\* get_request_url as it would be with api_map.get(key, key): an action that
\* api_map does not hold is taken for its own path.
get_request_url_lenient(self, params) ==
    IF params.action_params # NoParams /\ ~HasPlaceholder(params.action)
    THEN [raised |-> "TypeError", url |-> <<>>]
    ELSE [raised |-> NoException,
          url    |-> <<self.url,
                       IF params.action \in DOMAIN api_map
                       THEN api_map[params.action] ELSE params.action,
                       IF HasPlaceholder(params.action)
                       THEN params.action_params ELSE NoParams>>]

\* The URL, or the exception the lookup or the % conversion raises.
get_request_url(self, params) ==
    IF params.action \notin DOMAIN api_map
    THEN [raised |-> "KeyError", url |-> <<>>]
    ELSE IF params.action_params # NoParams /\ ~HasPlaceholder(params.action)
    THEN [raised |-> "TypeError", url |-> <<>>]
    ELSE [raised |-> NoException,
          url    |-> <<self.url, api_map[params.action],
                       IF HasPlaceholder(params.action)
                       THEN params.action_params ELSE NoParams>>]

\* http_method without the `files is not None` branch.
http_method_data_only(data, files) ==
    IF data.has_data THEN "POST" ELSE "GET"

\* requests.get unless the call carries a body or files.
http_method(data, files) ==
    IF data.has_data \/ files # NoFiles THEN "POST" ELSE "GET"

\* status_ok as it would be with a test for any 2xx status.
status_ok_2xx(status_code) == status_code \in 200..299

\* The status codes query() takes for a success.
status_ok(status_code) == status_code = 200

\* query(): one HTTP exchange at most.  A failed URL lookup is caught by the
\* outer handler alone (one log record); a transport exception or a refused
\* status is caught by the inner handler and again by the outer one (two).
query(self, data, files) ==
    LET u == get_request_url(self, data)
    IN  IF u.raised # NoException
        THEN {Outcome(Logged(self), QBittorrentRPCException, NoResponse)}
        ELSE LET req == [action  |-> data.action,
                         url     |-> u.url,
                         method  |-> http_method(data, files),
                         data    |-> data.has_data,
                         files   |-> files,
                         cookies |-> self.cookies]
                 sent(r) == [self EXCEPT !.reqs = Append(@, [req |-> req, resp |-> r])]
             IN  {IF r.kind = "exception" \/ ~status_ok(r.status_code)
                  THEN Outcome(Logged(Logged(sent(r))), QBittorrentRPCException, NoResponse)
                  ELSE Outcome(sent(r), NoException, r)
                  : r \in Transport(data.action)}

\* login_accepts without the test of the body.
login_accepts_any_body(response) == ~response.cookies.isNone

\* What login() accepts of the answer to its request.
login_accepts(response) == response.text = "Ok." /\ ~response.cookies.isNone

\* login(): every exception, its own included, is logged once more and
\* raised again as the domain exception.
login(self) ==
    {IF o.raised # NoException \/ ~login_accepts(o.value)
     THEN Outcome(Logged(o.self), QBittorrentRPCException, NoResponse)
     ELSE Outcome([o.self EXCEPT !.cookies = o.value.cookies, !.logged_in = TRUE],
                  NoException, NoResponse)
     : o \in query(self, build_params("login", TRUE, NoParams), NoFiles)}

\* ensure_login without the test of the stored token.
ensure_login_always(self) == login(self)

\* `if not self.cookies: self.login()`: the outcomes of login(), or the
\* session as it is.
ensure_login(self) ==
    IF ~Truthy(self.cookies) THEN login(self)
    ELSE {Outcome(self, NoException, NoResponse)}

\* auth_query with a re-login and one retry after a refused request.
auth_query_relogin(self, data, files) ==
    UNION {IF l.raised # NoException THEN {l}
           ELSE UNION {IF o.raised = NoException THEN {o}
                       ELSE UNION {IF r.raised # NoException THEN {r}
                                   ELSE query(r.self, data, files)
                                   : r \in login(o.self)}
                       : o \in query(l.self, data, files)}
           : l \in ensure_login(self)}

\* auth_query that goes on to its request after a login that raised.
auth_query_despite_login(self, data, files) ==
    UNION {query(l.self, data, files) : l \in ensure_login(self)}

auth_query(self, data, files) ==
    UNION {IF l.raised # NoException THEN {l} ELSE query(l.self, data, files)
           : l \in ensure_login(self)}

\* auth_query_json(): as auth_query, then response.json(), which raises on a
\* body that is no JSON document.
auth_query_json(self, data, files) ==
    UNION {IF l.raised # NoException THEN {l}
           ELSE {IF o.raised = NoException /\ ~o.value.json_ok
                 THEN Outcome(o.self, JSONDecodeError, NoResponse)
                 ELSE o
                 : o \in query(l.self, data, files)}
           : l \in ensure_login(self)}

\* BaseRPC.normalize_field_names with torrent_fields_map: save_path becomes
\* download_to, the other fields stay.
normalize_field_names(torrent_data) ==
    [hash        |-> torrent_data.hash,
     name        |-> torrent_data.name,
     download_to |-> torrent_data.save_path]

\* The `hashes` argument: None, or the hashes asked for.
NoHashes == [isNone |-> TRUE, hashes |-> {}]

HashFilter(hs) == [isNone |-> FALSE, hashes |-> hs]

\* hash_selected without the filter.
hash_selected_all(hashes, torrent_data_hash) == TRUE

hash_selected(hashes, torrent_data_hash) ==
    hashes.isNone \/ torrent_data_hash \in hashes.hashes

\* The record appended for one torrent of the bulk listing.
torrent_info(torrent_data, addition_data) ==
    [hash        |-> torrent_data.hash,
     name        |-> torrent_data.name,
     download_to |-> torrent_data.download_to,
     comment     |-> addition_data.comment]

\* The loop of method_get_torrents from the i-th entry of the bulk listing on.
RECURSIVE get_torrents_loop(_, _, _, _, _)
get_torrents_loop(self, listing, i, hashes, torrents_info) ==
    IF i > Len(listing) THEN {Outcome(self, NoException, torrents_info)}
    ELSE LET torrent_data == normalize_field_names(listing[i])
         IN  IF hash_selected(hashes, torrent_data.hash)
             THEN UNION
                  {IF a.raised # NoException THEN {a}
                   ELSE get_torrents_loop(a.self, listing, i + 1, hashes,
                            Append(torrents_info, torrent_info(torrent_data, a.value)))
                   : a \in auth_query_json(
                               self,
                               build_params("get_torrent", FALSE, torrent_data.hash),
                               NoFiles)}
             ELSE get_torrents_loop(self, listing, i + 1, hashes, torrents_info)

method_get_torrents(self, hashes) ==
    UNION {IF r.raised # NoException THEN {r}
           ELSE get_torrents_loop(r.self, r.value.torrents, 1, hashes, <<>>)
           : r \in auth_query_json(self,
                                   build_params("get_torrents", FALSE, NoParams),
                                   NoFiles)}

\* download_to is NoPath when the argument is None.
NoPath == "<None>"

add_torrent_files(download_to) ==
    IF download_to # NoPath THEN {"torrents", "savepath"} ELSE {"torrents"}

method_add_torrent(self, download_to) ==
    auth_query(self, build_params("add_torrent", FALSE, NoParams),
               add_torrent_files(download_to))

remove_action(with_data) ==
    IF with_data THEN "rem_torrent_with_data" ELSE "rem_torrent"

method_remove_torrent(self, hash_str, with_data) ==
    auth_query(self, build_params(remove_action(with_data), TRUE, NoParams), NoFiles)

method_get_version(self) ==
    {IF o.raised # NoException THEN o ELSE Outcome(o.self, NoException, o.value.text)
     : o \in auth_query(self, build_params("api_version_path", FALSE, NoParams), NoFiles)}

-----------------------------------------------------------------------------
(* The release selector.  A Python string is the sequence of its            *)
(* characters; the empty sequence is ''.                                    *)

Digits == <<"0", "1", "2", "3", "4", "5", "6", "7", "8", "9">>

UpperCase == <<"A", "B", "C", "D", "E", "F", "G", "H", "I", "J", "K", "L", "M",
               "N", "O", "P", "Q", "R", "S", "T", "U", "V", "W", "X", "Y", "Z">>

LowerCase == <<"a", "b", "c", "d", "e", "f", "g", "h", "i", "j", "k", "l", "m",
               "n", "o", "p", "q", "r", "s", "t", "u", "v", "w", "x", "y", "z">>

Range(f) == {f[i] : i \in DOMAIN f}

\* The digits, the upper case letters and the lower case letters as sets.
DigitCharacters == Range(Digits)

UpperCaseLetters == Range(UpperCase)

LowerCaseLetters == Range(LowerCase)

IsDigit(c) == c \in DigitCharacters

DigitValue(c) == (CHOOSE i \in DOMAIN Digits : Digits[i] = c) - 1

\* Two characters outside ASCII: the letter 'I with dot above' (U+0130), and
\* the combining dot above (U+0307), a mark and no letter.
I_WITH_DOT == "U+0130"

COMBINING_DOT == "U+0307"

\* str.lower() on one character: the lower case of U+0130 is 'i' followed by
\* U+0307, two characters.
LowerOfUpperCase ==
    [c \in UpperCaseLetters |-> LowerCase[CHOOSE i \in DOMAIN UpperCase : UpperCase[i] = c]]

Lower(c) ==
    IF c \in UpperCaseLetters THEN <<LowerOfUpperCase[c]>>
    ELSE IF c = I_WITH_DOT THEN <<"i", COMBINING_DOT>>
    ELSE <<c>>

\* str.lower()
RECURSIVE str_lower(_)
str_lower(s) == IF s = <<>> THEN <<>> ELSE Lower(Head(s)) \o str_lower(Tail(s))

\* The characters \w matches, the underscore apart.
WordCharacters ==
    UpperCaseLetters \cup LowerCaseLetters \cup DigitCharacters \cup {I_WITH_DOT}

\* REGEX_NON_WORD, [\W_]: everything but letters and digits.
REGEX_NON_WORD(c) == c \notin WordCharacters

\* Python's None where a string is expected.
NoneStr == <<"<None>">>

HOST == "https://www.anilibria.tv"

\* HOST + url
HostPlus(url_path) == <<HOST>> \o url_path

\* sanitize_quality(): '' for None and '', else the string without the
\* characters of REGEX_NON_WORD, in lower case.
sanitize_quality(quality_str) ==
    IF quality_str = NoneStr \/ quality_str = <<>> THEN <<>>
    ELSE str_lower(SelectSeq(quality_str, LAMBDA c : ~REGEX_NON_WORD(c)))

\* The length of the longest prefix of s made of digits.
LeadingDigits(s) ==
    CHOOSE k \in 0..Len(s) :
        /\ \A i \in 1..k : IsDigit(s[i])
        /\ k = Len(s) \/ ~IsDigit(s[k + 1])

\* REGEX_RANGE.match(s), \d+-\d+ matched at the start of s: digits, a hyphen
\* and a digit; what follows is not looked at.
REGEX_RANGE_match(s) ==
    LET k == LeadingDigits(s)
    IN  k >= 1 /\ Len(s) >= k + 2 /\ s[k + 1] = "-" /\ IsDigit(s[k + 2])

\* s.split('-'): the pieces between the hyphens, in order.
RECURSIVE split(_)
split(s) ==
    IF \A i \in 1..Len(s) : s[i] # "-" THEN <<s>>
    ELSE LET h == CHOOSE i \in 1..Len(s) :
                      s[i] = "-" /\ \A j \in 1..(i - 1) : s[j] # "-"
         IN  <<SubSeq(s, 1, h - 1)>> \o split(SubSeq(s, h + 1, Len(s)))

\* int(piece) raises ValueError unless the piece is a run of digits.
int_ok(piece) == piece # <<>> /\ \A i \in 1..Len(piece) : IsDigit(piece[i])

RECURSIVE int(_)
int(piece) ==
    IF piece = <<>> THEN 0
    ELSE 10 * int(SubSeq(piece, 1, Len(piece) - 1)) + DigitValue(piece[Len(piece)])

\* to_tuple(): the integers between the hyphens, or ValueError.
to_tuple(range_str) ==
    LET pieces == split(range_str)
    IN  IF \E i \in 1..Len(pieces) : ~int_ok(pieces[i])
        THEN [raised |-> "ValueError", value |-> <<>>]
        ELSE [raised |-> NoException,
              value  |-> [i \in 1..Len(pieces) |-> int(pieces[i])]]

\* Python's order of tuples: a < b.
TupleLess(a, b) ==
    \E i \in 1..(Len(a) + 1) :
        /\ \A j \in 1..(i - 1) : j <= Len(b) /\ a[j] = b[j]
        /\ i <= Len(b)
        /\ (i = Len(a) + 1 \/ a[i] < b[i])

\* sorted(keys, key=to_tuple, reverse=True): greatest first, keys with equal
\* tuples in the order they have in `keys`.
RECURSIVE sorted_reverse(_)
sorted_reverse(keys) ==
    IF keys = <<>> THEN <<>>
    ELSE LET first == CHOOSE i \in 1..Len(keys) :
                          /\ \A j \in 1..Len(keys) :
                                 ~TupleLess(to_tuple(keys[i]).value, to_tuple(keys[j]).value)
                          /\ \A j \in 1..(i - 1) :
                                 TupleLess(to_tuple(keys[j]).value, to_tuple(keys[i]).value)
         IN  <<keys[first]>> \o
             sorted_reverse(SubSeq(keys, 1, first - 1) \o SubSeq(keys, first + 1, Len(keys)))

\* The keys of series2torrents in insertion order: the series of the torrents
\* that pass the filter, each once, by first appearance.
series_keys(torrents) ==
    LET passing == SelectSeq(torrents, LAMBDA t : REGEX_RANGE_match(t.series))
        firsts  == SelectSeq([i \in 1..Len(passing) |-> i],
                             LAMBDA i : \A j \in 1..(i - 1) :
                                            passing[j].series # passing[i].series)
    IN  [k \in 1..Len(firsts) |-> passing[firsts[k]].series]

\* series2torrents[series]
series2torrents(torrents, series) ==
    SelectSeq(torrents, LAMBDA t : REGEX_RANGE_match(t.series) /\ t.series = series)

\* A dict as the sequence of its items in insertion order.
dict_keys(d) == [i \in 1..Len(d) |-> d[i][1]]

dict_get(d, key) == d[CHOOSE i \in 1..Len(d) : d[i][1] = key][2]

\* A dict that keeps the first value written under a key.
dict_set_keep_first(d, key, value) ==
    IF key \in Range(dict_keys(d)) THEN d ELSE Append(d, <<key, value>>)

\* d[key] = value: a new key goes last, a known key keeps its place.
dict_set(d, key, value) ==
    IF key \in Range(dict_keys(d))
    THEN [i \in 1..Len(d) |-> IF d[i][1] = key THEN <<key, value>> ELSE d[i]]
    ELSE Append(d, <<key, value>>)

\* The loop that fills available_qualities from the torrents of one series.
RECURSIVE fill_qualities(_, _, _)
fill_qualities(group, i, available_qualities) ==
    IF i > Len(group) THEN available_qualities
    ELSE fill_qualities(group, i + 1,
             dict_set(available_qualities,
                      sanitize_quality(group[i].quality),
                      HostPlus(group[i].url)))

\* json.get('status', True): an answer without a status counts as a success.
json_get_status_default_true(answer) == IF answer.has_status THEN answer.status ELSE TRUE

\* json.get('status', False)
json_get_status(answer) == IF answer.has_status THEN answer.status ELSE FALSE

\* find_available_qualities() on the tracker's answer.
find_available_qualities(answer) ==
    IF ~json_get_status(answer) THEN [raised |-> NoException, value |-> <<>>]
    ELSE LET keys == series_keys(answer.torrents)
         IN  IF \E i \in 1..Len(keys) : to_tuple(keys[i]).raised # NoException
             THEN [raised |-> "ValueError", value |-> <<>>]
             ELSE IF keys = <<>>
             THEN [raised |-> "IndexError", value |-> <<>>]
             ELSE [raised |-> NoException,
                   value  |-> fill_qualities(
                                  series2torrents(answer.torrents, sorted_reverse(keys)[1]),
                                  1, <<>>)]

\* The preferences sanitized, each once, by first appearance.
RECURSIVE sanitized_prefs(_, _, _)
sanitized_prefs(prefs, i, acc) ==
    IF i > Len(prefs) THEN acc
    ELSE LET pref == sanitize_quality(prefs[i])
         IN  sanitized_prefs(prefs, i + 1,
                             IF pref \in Range(acc) THEN acc ELSE Append(acc, pref))

\* get_download_link() that walks the available qualities and takes the first
\* one that is preferred, where the code walks the preferences.
get_download_link_tracker_order(prefs, answer) ==
    LET found == find_available_qualities(answer)
    IN  IF found.raised # NoException THEN found
        ELSE IF found.value = <<>> THEN [raised |-> NoException, value |-> <<>>]
        ELSE LET available_qualities == found.value
                 preferred_qualities ==
                     SelectSeq(dict_keys(available_qualities),
                               LAMBDA q : q \in Range(sanitized_prefs(prefs, 1, <<>>)))
             IN  IF preferred_qualities = <<>>
                 THEN [raised |-> NoException, value |-> available_qualities[1][2]]
                 ELSE [raised |-> NoException,
                       value  |-> dict_get(available_qualities, preferred_qualities[1])]

\* get_download_link() whose fallback is the last item of the mapping, where
\* the code takes next(iter(...)), the first.
get_download_link_fallback_last(prefs, answer) ==
    LET found == find_available_qualities(answer)
    IN  IF found.raised # NoException THEN found
        ELSE IF found.value = <<>> THEN [raised |-> NoException, value |-> <<>>]
        ELSE LET available_qualities == found.value
                 preferred_qualities ==
                     SelectSeq(sanitized_prefs(prefs, 1, <<>>),
                               LAMBDA q : q \in Range(dict_keys(available_qualities)))
             IN  IF preferred_qualities = <<>>
                 THEN [raised |-> NoException,
                       value  |-> available_qualities[Len(available_qualities)][2]]
                 ELSE [raised |-> NoException,
                       value  |-> dict_get(available_qualities, preferred_qualities[1])]

\* get_download_link() on the tracker's answer.
get_download_link(prefs, answer) ==
    LET found == find_available_qualities(answer)
    IN  IF found.raised # NoException THEN found
        ELSE IF found.value = <<>> THEN [raised |-> NoException, value |-> <<>>]
        ELSE LET available_qualities == found.value
                 preferred_qualities ==
                     SelectSeq(sanitized_prefs(prefs, 1, <<>>),
                               LAMBDA q : q \in Range(dict_keys(available_qualities)))
             IN  IF preferred_qualities = <<>>
                 THEN [raised |-> NoException, value |-> available_qualities[1][2]]
                 ELSE [raised |-> NoException,
                       value  |-> dict_get(available_qualities, preferred_qualities[1])]

-----------------------------------------------------------------------------
(* The inputs of the selector.                                             *)

\* 'HDTVRip 1080p', 'HDTVRip 720p', 'WEBRip 720p'
DefaultPrefs ==
    <<<<"H", "D", "T", "V", "R", "i", "p", " ", "1", "0", "8", "0", "p">>,
      <<"H", "D", "T", "V", "R", "i", "p", " ", "7", "2", "0", "p">>,
      <<"W", "E", "B", "R", "i", "p", " ", "7", "2", "0", "p">>>>

\* The quality_prefs a tracker object is built with: the default, the two
\* in the other order, a list that repeats a quality in other spellings, and
\* a list of a quality no release has ('4K').
PrefLists ==
    {DefaultPrefs,
     <<<<"W", "E", "B", "R", "i", "p", " ", "7", "2", "0", "p">>,
       <<"H", "D", "T", "V", "R", "i", "p", " ", "1", "0", "8", "0", "p">>>>,
     <<<<"w", "e", "b", "r", "i", "p", "_", "7", "2", "0", "P">>,
       <<"W", "E", "B", "R", "i", "p", " ", "7", "2", "0", "p">>,
       <<"H", "D", "T", "V", "R", "i", "p", "-", "1", "0", "8", "0", "p">>>>,
     <<<<"4", "K">>>>}

\* The series of a torrent: '2-9', '10-19', '1-2', '1-2-3', '1-2a', '5'.
SeriesPool ==
    {<<"2", "-", "9">>, <<"1", "0", "-", "1", "9">>, <<"1", "-", "2">>,
     <<"1", "-", "2", "-", "3">>, <<"1", "-", "2", "a">>, <<"5">>}

\* The quality of a torrent: 'WEBRip 720p', 'webrip-720p', 'HDTVRip 1080p', 'BDRip'.
QualityPool ==
    {<<"W", "E", "B", "R", "i", "p", " ", "7", "2", "0", "p">>,
     <<"w", "e", "b", "r", "i", "p", "-", "7", "2", "0", "p">>,
     <<"H", "D", "T", "V", "R", "i", "p", " ", "1", "0", "8", "0", "p">>,
     <<"B", "D", "R", "i", "p">>}

\* The url of the i-th torrent of a release: '/1', '/2', ...
TorrentUrl(i) == <<"/", Digits[i + 1]>>

\* The torrent lists of n entries.
RECURSIVE TorrentLists(_)
TorrentLists(n) ==
    IF n = 0 THEN {<<>>}
    ELSE {Append(l, [series |-> sr, quality |-> q, url |-> TorrentUrl(n)]) :
              l \in TorrentLists(n - 1), sr \in SeriesPool, q \in QualityPool}

\* The lists of n torrents of the one series '1-2'.
RECURSIVE OneSeriesLists(_)
OneSeriesLists(n) ==
    IF n = 0 THEN {<<>>}
    ELSE {Append(l, [series |-> <<"1", "-", "2">>, quality |-> q, url |-> TorrentUrl(n)]) :
              l \in OneSeriesLists(n - 1), q \in QualityPool}

\* What the tracker's API answers: {status, data: {torrents}} with at most
\* MaxTorrents torrents, or with one more when they are of one series, or an
\* answer whose status is false or missing.
Answers ==
    {[has_status |-> TRUE, status |-> TRUE, torrents |-> l] :
         l \in UNION {TorrentLists(n) : n \in 0..MaxTorrents}
                  \cup OneSeriesLists(MaxTorrents + 1)}
    \cup
    {[has_status |-> h, status |-> FALSE, torrents |-> l] :
         h \in BOOLEAN, l \in TorrentLists(0) \cup TorrentLists(1)}

\* The characters of the strings sanitize_quality is called with: letters in
\* both cases, a digit, the separators, and a letter outside ASCII.
QualityAlphabet == {"W", "w", "1", " ", "-", "_", ".", I_WITH_DOT}

Separators == {" ", "-", "_", "."}

\* The strings of at most n characters of QualityAlphabet.
RECURSIVE Strings(_)
Strings(n) ==
    IF n = 0 THEN {<<>>}
    ELSE LET shorter == Strings(n - 1)
         IN  shorter \cup {Append(s, c) : s \in shorter, c \in QualityAlphabet}

\* The other case of an ASCII letter.
SwapCase(c) ==
    IF c \in UpperCaseLetters THEN LowerOfUpperCase[c]
    ELSE IF c \in LowerCaseLetters
    THEN UpperCase[CHOOSE i \in DOMAIN LowerCase : LowerCase[i] = c]
    ELSE c

\* The spellings of s: s itself, s with one more separator, and s with one
\* ASCII letter in the other case.
Spellings(s) ==
    {s}
    \cup {SubSeq(s, 1, k) \o <<sep>> \o SubSeq(s, k + 1, Len(s)) :
              k \in 0..Len(s), sep \in Separators}
    \cup {[s EXCEPT ![k] = SwapCase(s[k])] : k \in 1..Len(s)}

\* The pairs of arguments sanitize_quality is called with: a string and one of
\* its spellings, and None with ''.
QualityPairs ==
    UNION {{<<x, y>> : y \in Spellings(x)} : x \in Strings(MaxQualityLen) \cup QualityPool}
    \cup {<<NoneStr, <<>>>>}

-----------------------------------------------------------------------------
(* The session as a state machine: one action per public method.           *)

\* QBittorrentRPC.__init__ called with its defaults: 'http://%s:%s/' % (host, port).
DefaultUrl == "http://localhost:8080/"

NotCalled == [raised |-> NoException, value |-> <<>>]

\* The threads that call the session.
Callers == {1, 2}

\* A thread that has not called yet.  `self` is the session as the thread
\* read it when it sent its last request.
Idle ==
    [pc     |-> "idle",
     data   |-> build_params("", FALSE, NoParams),
     self   |-> [cookies |-> Jar({}), url |-> DefaultUrl, user |-> "admin",
                 password |-> "admin", reqs |-> <<>>, logs |-> 0, logged_in |-> FALSE],
     wrote  |-> FALSE,
     raised |-> NoException]

InitSession ==
    /\ logged_in = FALSE
    /\ callers = [c \in Callers |-> Idle]
    /\ cookies = Jar({})
    /\ url = DefaultUrl
    /\ user = "admin"
    /\ password = "admin"
    /\ op = [name |-> "__init__"]
    /\ pre = [cookies |-> Jar({}), url |-> DefaultUrl, user |-> "admin", password |-> "admin",
              logged_in |-> FALSE]
    /\ reqs = <<>>
    /\ logs = 0
    /\ result = [raised |-> NoException, value |-> NoResponse]

\* AnilibriaTracker.__init__, and the release as the tracker's API reports it.
InitTracker(prefs, answers) ==
    /\ quality_prefs \in prefs
    /\ json \in answers
    /\ tracker_op = "__init__"
    /\ available = NotCalled
    /\ download_link = NotCalled

\* sanitize_quality not called yet.
NotSanitized == [calls |-> 0, str |-> <<>>, other |-> <<>>, again |-> <<>>]

InitSanitize(pairs) ==
    /\ \E pair \in pairs : raw_quality = pair[1] /\ other_quality = pair[2]
    /\ sanitized = NotSanitized

\* No release looked at and nothing to sanitize.
NoRelease == {[has_status |-> FALSE, status |-> FALSE, torrents |-> <<>>]}

NoQuality == {<<<<>>, <<>>>>}

Init ==
    /\ InitSession
    /\ InitTracker({DefaultPrefs}, NoRelease)
    /\ InitSanitize(NoQuality)

\* The session as a call finds it.
Self ==
    [cookies |-> cookies, url |-> url, user |-> user, password |-> password,
     reqs |-> <<>>, logs |-> 0, logged_in |-> logged_in]

\* A call of `name` ends in one of `outcomes`.
Call(name, args, outcomes) ==
    \E o \in outcomes :
        /\ cookies' = o.self.cookies
        /\ url' = o.self.url
        /\ user' = o.self.user
        /\ password' = o.self.password
        /\ op' = [name |-> name, args |-> args]
        /\ pre' = [cookies |-> cookies, url |-> url, user |-> user, password |-> password,
                   logged_in |-> logged_in]
        /\ reqs' = o.self.reqs
        /\ logs' = o.self.logs
        /\ result' = [raised |-> o.raised, value |-> o.value]
        /\ logged_in' = o.self.logged_in
        /\ UNCHANGED <<callers, trackerVars, sanitizeVars>>

\* The actions a caller passes to query() directly: some of api_map and one
\* that is not in it.
QueryActions == {"api_version_path", "get_torrent", "rem_torrent", "set_preferences"}

\* The hash filters a caller passes to method_get_torrents.
HashFilters ==
    {NoHashes, HashFilter({}), HashFilter({"aa"}), HashFilter({"bb", "cc"})}

FilesValues == {NoFiles, {"torrents"}}

CallLogin == Call("login", <<>>, login(Self))

CallQuery ==
    \E action \in QueryActions, has_data \in BOOLEAN, files \in FilesValues,
       action_params \in {NoParams, "aa"} :
        LET data == build_params(action, has_data, action_params)
        IN  Call("query", [data |-> data, files |-> files], query(Self, data, files))

CallGetTorrents ==
    \E hashes \in HashFilters :
        Call("method_get_torrents", [hashes |-> hashes], method_get_torrents(Self, hashes))

CallAddTorrent ==
    \E download_to \in {NoPath, "/dl"} :
        Call("method_add_torrent", [download_to |-> download_to],
             method_add_torrent(Self, download_to))

CallRemoveTorrent ==
    \E hash_str \in {"aa"}, with_data \in BOOLEAN :
        Call("method_remove_torrent", [hash_str |-> hash_str, with_data |-> with_data],
             method_remove_torrent(Self, hash_str, with_data))

CallGetVersion == Call("method_get_version", <<>>, method_get_version(Self))

Next ==
    \/ CallLogin
    \/ CallQuery
    \/ CallGetTorrents
    \/ CallAddTorrent
    \/ CallRemoveTorrent
    \/ CallGetVersion

Spec == Init /\ [][Next]_vars

-----------------------------------------------------------------------------
(* The selector as a state machine: the tracker object is built, and its   *)
(* two public methods are called on the release.                           *)

CallFindAvailableQualities ==
    /\ tracker_op' = "find_available_qualities"
    /\ available' = find_available_qualities(json)
    /\ download_link' = NotCalled
    /\ UNCHANGED <<quality_prefs, json, rpcVars, sanitizeVars>>

\* get_download_link(), with the outcome of the find_available_qualities()
\* it calls.
CallGetDownloadLink ==
    /\ tracker_op' = "get_download_link"
    /\ available' = find_available_qualities(json)
    /\ download_link' = get_download_link(quality_prefs, json)
    /\ UNCHANGED <<quality_prefs, json, rpcVars, sanitizeVars>>

InitSelector ==
    /\ InitSession
    /\ InitTracker(PrefLists, Answers)
    /\ InitSanitize(NoQuality)

NextSelector == CallFindAvailableQualities \/ CallGetDownloadLink

SpecSelector == InitSelector /\ [][NextSelector]_vars

-----------------------------------------------------------------------------
(* The session shared by two threads.  Each thread calls one derived        *)
(* operation; a step of a thread is what it does between two points at      *)
(* which the other thread may run: the test of the token, the sending of a  *)
(* request, and the handling of its answer.                                 *)

\* The params of the derived operations the threads call: method_get_version
\* and method_remove_torrent.
CallerOps ==
    {build_params("api_version_path", FALSE, NoParams),
     build_params(remove_action(FALSE), TRUE, NoParams)}

\* The fields of the session no step of a thread writes, and the records of
\* the other state machines.
ThreadFrame == <<url, user, password, op, pre, result, trackerVars, sanitizeVars>>

\* A thread enters a derived operation, and with it auth_query.
CallDerived(c) ==
    /\ callers[c].pc = "idle"
    /\ \E data \in CallerOps :
           callers' = [callers EXCEPT ![c].pc = "auth_query", ![c].data = data]
    /\ UNCHANGED <<cookies, reqs, logs, logged_in, ThreadFrame>>

\* `if not self.cookies:`
CheckCookies(c) ==
    /\ callers[c].pc = "auth_query"
    /\ callers' = [callers EXCEPT
                      ![c].pc = IF ~Truthy(cookies) THEN "login" ELSE "query"]
    /\ UNCHANGED <<cookies, reqs, logs, logged_in, ThreadFrame>>

\* login() sends its request, built of the session as it is now.
SendLogin(c) ==
    /\ callers[c].pc = "login"
    /\ callers' = [callers EXCEPT ![c].pc = "login_wait", ![c].self = Self]
    /\ UNCHANGED <<cookies, reqs, logs, logged_in, ThreadFrame>>

\* The answer to the login request arrives: login() stores the cookies, or
\* raises and ends the operation.
ReceiveLogin(c) ==
    /\ callers[c].pc = "login_wait"
    /\ \E o \in login(callers[c].self) :
           /\ reqs' = reqs \o o.self.reqs
           /\ logs' = logs + o.self.logs
           /\ IF o.raised = NoException
              THEN /\ cookies' = o.self.cookies
                   /\ logged_in' = TRUE
                   /\ callers' = [callers EXCEPT ![c].pc = "query", ![c].wrote = TRUE]
              ELSE /\ callers' = [callers EXCEPT ![c].pc = "done", ![c].raised = o.raised]
                   /\ UNCHANGED <<cookies, logged_in>>
    /\ UNCHANGED ThreadFrame

\* query() sends the request of the operation, built of the session as it is now.
SendQuery(c) ==
    /\ callers[c].pc = "query"
    /\ callers' = [callers EXCEPT ![c].pc = "query_wait", ![c].self = Self]
    /\ UNCHANGED <<cookies, reqs, logs, logged_in, ThreadFrame>>

\* The answer arrives: the operation returns or raises.
ReceiveQuery(c) ==
    /\ callers[c].pc = "query_wait"
    /\ \E o \in query(callers[c].self, callers[c].data, NoFiles) :
           /\ reqs' = reqs \o o.self.reqs
           /\ logs' = logs + o.self.logs
           /\ callers' = [callers EXCEPT ![c].pc = "done", ![c].raised = o.raised]
    /\ UNCHANGED <<cookies, logged_in, ThreadFrame>>

NextThreads ==
    \E c \in Callers :
        \/ CallDerived(c)
        \/ CheckCookies(c)
        \/ SendLogin(c)
        \/ ReceiveLogin(c)
        \/ SendQuery(c)
        \/ ReceiveQuery(c)

SpecThreads == Init /\ [][NextThreads]_vars

-----------------------------------------------------------------------------
(* sanitize_quality as a state machine: it is called on two spellings of a *)
(* quality, and again on what it returned.                                 *)

CallSanitizeQuality ==
    /\ sanitized' = [calls |-> 1,
                     str   |-> sanitize_quality(raw_quality),
                     other |-> sanitize_quality(other_quality),
                     again |-> <<>>]
    /\ UNCHANGED <<raw_quality, other_quality, rpcVars, trackerVars>>

CallSanitizeQualityAgain ==
    /\ sanitized.calls >= 1
    /\ sanitized' = [sanitized EXCEPT !.calls = 2, !.again = sanitize_quality(sanitized.str)]
    /\ UNCHANGED <<raw_quality, other_quality, rpcVars, trackerVars>>

InitSanitizer ==
    /\ InitSession
    /\ InitTracker({DefaultPrefs}, NoRelease)
    /\ InitSanitize(QualityPairs)

NextSanitizer == CallSanitizeQuality \/ CallSanitizeQualityAgain

SpecSanitizer == InitSanitizer /\ [][NextSanitizer]_vars

-----------------------------------------------------------------------------
(* Vocabulary of the properties.                                           *)

\* The derived operations: the public methods that go through auth_query.
Derived ==
    op.name \in {"method_get_torrents", "method_add_torrent",
                 "method_remove_torrent", "method_get_version"}

\* The positions of the login requests among the exchanges of the last call.
LoginIdx == {i \in 1..Len(reqs) : reqs[i].req.action = "login"}

\* The exchanges of the last call that are no login.
ActionReqs == SelectSeq(reqs, LAMBDA e : e.req.action # "login")

\* The stored token right after the i-th exchange: the one the next request
\* carries, or the one the call left behind.
CookiesAfter(i) == IF i < Len(reqs) THEN reqs[i + 1].req.cookies ELSE cookies

\* The backend took the request: an answer with status 200.
Served(resp) == resp.kind = "response" /\ resp.status_code = 200

\* The backend accepted the login and handed out a non-empty token.
LoginGranted(resp) == Served(resp) /\ resp.text = "Ok." /\ Truthy(resp.cookies)

\* The login() that made the i-th exchange returned without raising: the call
\* went on after it, or it was the call and the call returned.
LoginReturned(i) == i < Len(reqs) \/ result.raised = NoException

-----------------------------------------------------------------------------
\* C1: on a session without a token whose login the backend grants, a derived
\* operation sends exactly one login request, first, and the action request
\* right after it; on a session that holds a token a derived operation sends
\* no login request at all.
C1_OneLoginThenNone ==
    Derived =>
        /\ (~Truthy(pre.cookies) /\ reqs # <<>> /\ LoginGranted(reqs[1].resp))
               => /\ LoginIdx = {1}
                  /\ Len(reqs) >= 2
                  /\ reqs[2].req.action # "login"
        /\ Truthy(pre.cookies) => LoginIdx = {}

\* A listing on a fresh session: login granted, then the bulk request and a
\* detail request, and no second login.
C1_Witness ==
    /\ op.name = "method_get_torrents"
    /\ ~Truthy(pre.cookies)
    /\ Len(reqs) >= 3
    /\ LoginIdx = {1}
    /\ LoginGranted(reqs[1].resp)
    /\ result.raised = NoException

C3_RefusedLoginRaises ==
    \A i \in LoginIdx :
        ~LoginGranted(reqs[i].resp)
            => /\ i = Len(reqs)
               /\ result.raised = QBittorrentRPCException
               /\ CookiesAfter(i) = reqs[i].req.cookies

\* C4 (as claimed): url, user and password never change; the stored token
\* changes only across a login exchange; and a stored token is never reset to
\* absent.
C4_TokenChangesOnlyInLogin ==
    /\ url = pre.url /\ user = pre.user /\ password = pre.password
    /\ IF reqs = <<>> THEN cookies = pre.cookies
       ELSE reqs[1].req.cookies = pre.cookies
    /\ \A i \in 1..Len(reqs) :
           i \notin LoginIdx => CookiesAfter(i) = reqs[i].req.cookies
    /\ Truthy(pre.cookies) => Truthy(cookies)

\* The part of C4 that the code keeps: everything but the last conjunct.
TokenFrame ==
    /\ url = pre.url /\ user = pre.user /\ password = pre.password
    /\ IF reqs = <<>> THEN cookies = pre.cookies
       ELSE reqs[1].req.cookies = pre.cookies
    /\ \A i \in 1..Len(reqs) :
           i \notin LoginIdx => CookiesAfter(i) = reqs[i].req.cookies

\* C5 (as claimed): query() raises the domain exception for every non-2xx
\* answer and every transport exception, and returns the response for every
\* 2xx answer.
C5_RaisesExactlyOnNon2xx ==
    (op.name = "query" /\ reqs # <<>>) =>
        LET r == reqs[1].resp
        IN  IF r.kind = "response" /\ r.status_code \in 200..299
            THEN result.raised = NoException /\ result.value = r
            ELSE result.raised = QBittorrentRPCException

\* C5 (amended): query() returns the response exactly when the answer has
\* status 200; for every other status, the other 2xx included, for a transport
\* exception, and when no request could be built, it raises the domain
\* exception and returns nothing.
C5_RaisesUnlessStatus200 ==
    op.name = "query" =>
        IF reqs # <<>> /\ Served(reqs[1].resp)
        THEN result.raised = NoException /\ result.value = reqs[1].resp
        ELSE result.raised = QBittorrentRPCException /\ result.value = NoResponse

\* query() got a 2xx answer that is not 200, and raised.
C5_Witness ==
    /\ op.name = "query"
    /\ Len(reqs) = 1
    /\ reqs[1].resp.kind = "response"
    /\ reqs[1].resp.status_code = 204
    /\ result.raised = QBittorrentRPCException

\* C6: a request is a GET when it carries neither a 'data' body nor files and
\* a POST otherwise; the login, remove and add requests of login() and of the
\* derived operations are POSTs, their version, listing and detail requests
\* are GETs.
C6_MethodFollowsPayload ==
    \A i \in 1..Len(reqs) :
        LET r == reqs[i].req
        IN  /\ r.method = "GET" <=> (~r.data /\ r.files = NoFiles)
            /\ r.method = "POST" <=> (r.data \/ r.files # NoFiles)
            /\ op.name # "query" =>
                   /\ r.action \in {"login", "rem_torrent", "rem_torrent_with_data",
                                    "add_torrent"} => r.method = "POST"
                   /\ r.action \in {"api_version_path", "get_torrents", "get_torrent"}
                          => r.method = "GET"

\* An upload: a POST that carries files and no 'data' body.
C6_Witness ==
    /\ op.name = "method_add_torrent"
    /\ reqs # <<>>
    /\ reqs[Len(reqs)].req.action = "add_torrent"
    /\ reqs[Len(reqs)].req.method = "POST"
    /\ ~reqs[Len(reqs)].req.data
    /\ "savepath" \in reqs[Len(reqs)].req.files

\* C7: a listing that returns holds exactly the records of the bulk listing
\* that the filter selects (all of them without a filter), in the order of the
\* bulk listing, each with the comment of its own detail request; after the
\* bulk request come the detail requests of the returned records, one each and
\* in order, and nothing else; on a session that holds a token these are all
\* the requests of the call; no detail request is ever sent for a torrent the
\* filter excludes.
C7_ListingFiltered ==
    op.name = "method_get_torrents" =>
        LET hashes == op.args.hashes
            chosen(t) == hashes.isNone \/ t.hash \in hashes.hashes
        IN  /\ \A i \in 1..Len(reqs) :
                   reqs[i].req.action = "get_torrent"
                       => (hashes.isNone \/ reqs[i].req.url[3] \in hashes.hashes)
            /\ result.raised = NoException =>
                   LET bulk   == ActionReqs[1]
                       wanted == SelectSeq(bulk.resp.torrents, chosen)
                       info   == result.value
                   IN  /\ bulk.req.action = "get_torrents"
                       /\ Len(info) = Len(wanted)
                       /\ Len(ActionReqs) = 1 + Len(info)
                       /\ Truthy(pre.cookies) => Len(reqs) = 1 + Len(info)
                       /\ \A k \in 1..Len(info) :
                              LET detail == ActionReqs[1 + k]
                              IN  /\ detail.req.action = "get_torrent"
                                  /\ detail.req.url[3] = wanted[k].hash
                                  /\ info[k] = [hash        |-> wanted[k].hash,
                                                name        |-> wanted[k].name,
                                                download_to |-> wanted[k].save_path,
                                                comment     |-> detail.resp.comment]

\* A filtered listing on a session that holds a token: the backend lists two
\* torrents, the filter keeps the second, and one detail request is sent.
C7_Witness ==
    /\ op.name = "method_get_torrents"
    /\ op.args.hashes = HashFilter({"aa"})
    /\ Truthy(pre.cookies)
    /\ result.raised = NoException
    /\ Len(reqs) = 2
    /\ Len(reqs[1].resp.torrents) = 2
    /\ Len(result.value) = 1
    /\ result.value[1].hash = "aa"
    /\ result.value[1].comment = reqs[2].resp.comment

\* C8 (as claimed): query() with an action that api_map does not hold sends no
\* request and raises an error other than the one raised for transport
\* failures and refused statuses.
C8_UnknownActionOwnError ==
    (op.name = "query" /\ op.args.data.action \notin DOMAIN api_map) =>
        /\ reqs = <<>>
        /\ result.raised \notin {NoException, QBittorrentRPCException}

\* C8 (amended): query() with an action that api_map does not hold sends no
\* request and raises QBittorrentRPCException, the very exception it raises for
\* transport failures and refused statuses.
C8_UnknownActionDomainError ==
    (op.name = "query" /\ op.args.data.action \notin DOMAIN api_map) =>
        /\ reqs = <<>>
        /\ result.raised = QBittorrentRPCException
        /\ result.value = NoResponse
        /\ cookies = pre.cookies

\* query() was called with an action that is not in api_map.
C8_Witness ==
    /\ op.name = "query"
    /\ op.args.data.action = "set_preferences"
    /\ reqs = <<>>
    /\ result.raised = QBittorrentRPCException

RefusalAlwaysRaises ==
    \A i \in 1..Len(reqs) :
        ~Served(reqs[i].resp) => (i = Len(reqs) /\ result.raised = QBittorrentRPCException)

-----------------------------------------------------------------------------
(* Vocabulary of the properties of the selector.                           *)

\* A series of the form <int>-<int>, and nothing else.
IsIntPair(series) ==
    LET pieces == split(series)
    IN  Len(pieces) = 2 /\ int_ok(pieces[1]) /\ int_ok(pieces[2])

\* (start, end) of such a series.
PairOf(series) == <<int(split(series)[1]), int(split(series)[2])>>

\* (a, b) < (c, d) as pairs of integers.
PairLess(p, q) == p[1] < q[1] \/ (p[1] = q[1] /\ p[2] < q[2])

\* get_download_link() returned a link.
LinkReturned ==
    /\ tracker_op = "get_download_link"
    /\ download_link.raised = NoException
    /\ download_link.value # <<>>

\* The link is HOST + url of a torrent of a group <int>-<int> that no other
\* such group of the answer exceeds.
LinkOfMaximalPairGroup ==
    \E i \in 1..Len(json.torrents) :
        /\ IsIntPair(json.torrents[i].series)
        /\ download_link.value = HostPlus(json.torrents[i].url)
        /\ \A j \in 1..Len(json.torrents) :
               IsIntPair(json.torrents[j].series)
                   => ~PairLess(PairOf(json.torrents[i].series),
                                PairOf(json.torrents[j].series))

\* C10 (as claimed): for every answer with a successful status the link
\* returned belongs to a torrent of the series group that is greatest when the
\* groups are compared as pairs of integers (start, end).
C10_LinkFromMaximalPairGroup ==
    (LinkReturned /\ json_get_status(json)) => LinkOfMaximalPairGroup

\* What the code keeps of C10: the same, for the answers in which every series
\* that passes REGEX_RANGE.match is an <int>-<int>.
MaximalPairGroupWhenWellFormed ==
    (LinkReturned /\ \A i \in 1..Len(json.torrents) :
                         REGEX_RANGE_match(json.torrents[i].series)
                             => IsIntPair(json.torrents[i].series))
        => LinkOfMaximalPairGroup

-----------------------------------------------------------------------------
(* The choice of a quality within the selected group.                      *)

\* get_download_link() was called and its find_available_qualities() built a
\* mapping with at least one quality.
MappingBuilt ==
    /\ tracker_op = "get_download_link"
    /\ available.raised = NoException
    /\ available.value # <<>>

\* The positions of quality_prefs whose normalized form is a key of the mapping.
AvailablePrefs ==
    {i \in 1..Len(quality_prefs) :
         \E k \in 1..Len(available.value) :
             available.value[k][1] = sanitize_quality(quality_prefs[i])}

\* C11: when some normalized preference is a key of the mapping of the selected
\* group, the link returned is the one mapped to the earliest such preference
\* of the preference list, whatever the order of the qualities in the mapping.
C11_EarliestPreferenceWins ==
    (MappingBuilt /\ AvailablePrefs # {}) =>
        LET first == CHOOSE i \in AvailablePrefs : \A j \in AvailablePrefs : i <= j
        IN  /\ download_link.raised = NoException
            /\ \E k \in 1..Len(available.value) :
                   /\ available.value[k][1] = sanitize_quality(quality_prefs[first])
                   /\ download_link.value = available.value[k][2]

\* The first preference is the second quality of the mapping, the second
\* preference the first, and the link of the second quality is returned.
C11_Witness ==
    /\ MappingBuilt
    /\ Len(quality_prefs) >= 2
    /\ Len(available.value) = 2
    /\ available.value[2][1] = sanitize_quality(quality_prefs[1])
    /\ available.value[1][1] = sanitize_quality(quality_prefs[2])
    /\ download_link.value = available.value[2][2]
    /\ download_link.value # available.value[1][2]

\* C12: when the mapping is not empty and no normalized preference is a key of
\* it, a link is returned, never '': the link held by the first item of the
\* mapping, whose key is the quality of the first torrent of its series group
\* and whose link is that of the last torrent of the group with that quality.
C12_FallbackFirstInserted ==
    (MappingBuilt /\ AvailablePrefs = {}) =>
        /\ download_link.raised = NoException
        /\ download_link.value # <<>>
        /\ download_link.value = available.value[1][2]
        /\ \E i \in 1..Len(json.torrents) :
               LET t     == json.torrents[i]
                   group == SelectSeq(json.torrents, LAMBDA u : u.series = t.series)
               IN  /\ download_link.value = HostPlus(t.url)
                   /\ sanitize_quality(t.quality) = sanitize_quality(group[1].quality)
                   /\ available.value[1][1] = sanitize_quality(group[1].quality)
                   /\ \A j \in (i + 1)..Len(json.torrents) :
                          json.torrents[j].series = t.series
                              => sanitize_quality(json.torrents[j].quality)
                                     # sanitize_quality(t.quality)

\* No preference is available, the mapping holds two qualities and the link
\* of the first is returned.
C12_Witness ==
    /\ MappingBuilt
    /\ AvailablePrefs = {}
    /\ Len(available.value) = 2
    /\ download_link.value = available.value[1][2]
    /\ download_link.value # available.value[2][2]

-----------------------------------------------------------------------------
(* The answers that hold nothing to select.                                *)

\* The answer reports success and none of its torrents passes the filter of
\* find_available_qualities (the list may be empty).
NoCandidates ==
    /\ json.has_status /\ json.status
    /\ \A i \in 1..Len(json.torrents) : ~REGEX_RANGE_match(json.torrents[i].series)

\* C13 (as claimed): on an answer with a successful status and no candidate,
\* get_download_link returns '' and raises nothing.
C13_NoCandidatesEmptyLink ==
    (tracker_op = "get_download_link" /\ NoCandidates)
        => download_link = [raised |-> NoException, value |-> <<>>]

\* What the code does on such an answer: sorted_series[0] raises IndexError.
NoCandidatesIndexError ==
    (tracker_op = "get_download_link" /\ NoCandidates)
        => download_link = [raised |-> "IndexError", value |-> <<>>]

\* C14: on an answer whose status is false or missing, both methods return
\* empty ({} and '') and raise nothing, whatever the torrents of the answer.
C14_FailureStatusEmptyLink ==
    (tracker_op # "__init__" /\ ~(json.has_status /\ json.status)) =>
        /\ available = [raised |-> NoException, value |-> <<>>]
        /\ download_link = [raised |-> NoException, value |-> <<>>]

\* An answer without a status whose only torrent has the series '1-2a', which
\* to_tuple cannot convert: get_download_link returned ''.
C14_Witness ==
    /\ tracker_op = "get_download_link"
    /\ ~json.has_status
    /\ Len(json.torrents) = 1
    /\ json.torrents[1].series = <<"1", "-", "2", "a">>
    /\ download_link = [raised |-> NoException, value |-> <<>>]

-----------------------------------------------------------------------------
(* The normalization of a quality.                                         *)

\* sanitize_quality of sanitize_quality(x) is sanitize_quality(x).
SanitizeIdempotent ==
    sanitized.calls = 2 => sanitized.again = sanitized.str

\* Two spellings of a quality, apart by the case of a letter or by a
\* separator, have one sanitized form; None and '' have the form ''.
SanitizeInsensitive ==
    sanitized.calls >= 1 =>
        /\ (other_quality \in Spellings(raw_quality) \/ raw_quality = NoneStr)
               => sanitized.other = sanitized.str
        /\ raw_quality \in {NoneStr, <<>>} => sanitized.str = <<>>

\* C15 (as claimed): sanitize_quality is idempotent for every input, takes
\* inputs that differ only in letter case or in separators to the same key,
\* and takes None and '' to ''.
C15_SanitizeIdempotentInsensitive ==
    SanitizeIdempotent /\ SanitizeInsensitive

\* What the code keeps of the idempotence: it holds for the strings without
\* U+0130, whose lower case holds a character REGEX_NON_WORD removes.
SanitizeIdempotentWithoutIWithDot ==
    (sanitized.calls = 2 /\ I_WITH_DOT \notin Range(raw_quality))
        => sanitized.again = sanitized.str

-----------------------------------------------------------------------------
(* The series that are no range.                                           *)

\* The answer without the torrents whose series is not an <int>-<int>.
WellFormedOnly(answer) ==
    [answer EXCEPT !.torrents = SelectSeq(@, LAMBDA t : IsIntPair(t.series))]

\* get_download_link() was called on a successful answer that holds a torrent
\* whose series is an <int>-<int> and a torrent whose series is not.
MixedSeries ==
    /\ tracker_op = "get_download_link"
    /\ json.has_status /\ json.status
    /\ \E i \in 1..Len(json.torrents) : IsIntPair(json.torrents[i].series)
    /\ \E i \in 1..Len(json.torrents) : ~IsIntPair(json.torrents[i].series)

\* C16 (as claimed): a torrent whose series is not exactly <int>-<int> takes
\* no part in the selection and never makes get_download_link raise: the
\* result is the one of the answer without such torrents.
C16_MalformedSeriesIgnored ==
    MixedSeries =>
        /\ download_link.raised = NoException
        /\ download_link = get_download_link(quality_prefs, WellFormedOnly(json))

\* What the code keeps of C16: the same, when the series that are no
\* <int>-<int> do not pass REGEX_RANGE.match either (as '5').
UnmatchedSeriesIgnored ==
    (MixedSeries /\ \A i \in 1..Len(json.torrents) :
                        REGEX_RANGE_match(json.torrents[i].series)
                            => IsIntPair(json.torrents[i].series))
        => /\ download_link.raised = NoException
           /\ download_link = get_download_link(quality_prefs, WellFormedOnly(json))

-----------------------------------------------------------------------------
(* The mapping of the selected group.                                      *)

\* C17: the mapping find_available_qualities returns is built of the torrents
\* of one series: it has one item per distinct sanitized quality of the group,
\* the items stand in the order in which their qualities first occur in the
\* group, and each holds the link of the last torrent of that quality.
C17_LastWriteFirstPosition ==
    (tracker_op # "__init__" /\ available.raised = NoException /\ available.value # <<>>) =>
        \E s \in {json.torrents[i].series : i \in 1..Len(json.torrents)} :
            LET group  == SelectSeq(json.torrents, LAMBDA t : t.series = s)
                key    == [i \in 1..Len(group) |-> sanitize_quality(group[i].quality)]
                firsts == {i \in 1..Len(group) : \A j \in 1..(i - 1) : key[j] # key[i]}
                m      == available.value
            IN  /\ Len(m) = Cardinality(Range(key))
                /\ \A k \in 1..Len(m) :
                       \E i \in firsts :
                           /\ m[k][1] = key[i]
                           /\ Cardinality({j \in firsts : j < i}) = k - 1
                           /\ \E l \in i..Len(group) :
                                  /\ key[l] = key[i]
                                  /\ \A j \in (l + 1)..Len(group) : key[j] # key[i]
                                  /\ m[k][2] = HostPlus(group[l].url)

\* Three torrents of one series, the third of the quality of the first in
\* another spelling: the mapping has two items, the first with the link of the
\* third torrent.
C17_Witness ==
    /\ tracker_op = "find_available_qualities"
    /\ Len(json.torrents) = 3
    /\ json.torrents[1].quality # json.torrents[3].quality
    /\ available.raised = NoException
    /\ Len(available.value) = 2
    /\ available.value[1] = <<sanitize_quality(json.torrents[1].quality),
                              HostPlus(json.torrents[3].url)>>
    /\ available.value[2] = <<sanitize_quality(json.torrents[2].quality),
                              HostPlus(json.torrents[2].url)>>

-----------------------------------------------------------------------------
(* The error log.                                                          *)

\* The last call made one request, which the backend refused or the
\* transport failed to deliver.
RequestFailed ==
    /\ Len(reqs) = 1
    /\ ~Served(reqs[1].resp)

\* C18 (as claimed): a query() that fails on its request emits exactly one
\* error log record, and a login() that fails emits exactly one in total.
C18_EachFailureLoggedOnce ==
    /\ (op.name = "query" /\ RequestFailed) => logs = 1
    /\ (op.name = "login" /\ result.raised # NoException) => logs = 1

\* What the code does: the inner and the outer handler of query() log one
\* record each, and login() logs one more on top of those of its query().
LogRecordsPerFailure ==
    /\ (op.name = "query" /\ RequestFailed) => logs = 2
    /\ (op.name = "query" /\ result.raised # NoException /\ reqs = <<>>) => logs = 1
    /\ (op.name = "login" /\ RequestFailed) => logs = 3
    /\ (op.name = "login" /\ result.raised # NoException /\ ~RequestFailed) => logs = 1
    /\ (op.name \in {"query", "login"} /\ result.raised = NoException) => logs = 0

-----------------------------------------------------------------------------
(* Login before action.                                                    *)

\* The answer makes login() raise: the request failed, or the body is not
\* 'Ok.', or there are no cookies.
LoginRaises(resp) ==
    ~Served(resp) \/ resp.text # "Ok." \/ resp.cookies.isNone

\* C20: a derived operation called without a token logs in first; when that
\* login raises, the operation raises and has sent nothing but the login
\* request.  Whenever a derived operation has sent an action request, a
\* login returned without raising before it: in an earlier call on the
\* session, or at the start of this one.
C20_NoActionWithoutLogin ==
    /\ (Derived /\ ~Truthy(pre.cookies)) =>
           /\ reqs # <<>> /\ reqs[1].req.action = "login"
           /\ LoginRaises(reqs[1].resp) =>
                  /\ result.raised = QBittorrentRPCException
                  /\ Len(reqs) = 1
    /\ (Derived /\ ActionReqs # <<>>) =>
           /\ logged_in
           /\ \/ pre.logged_in
              \/ reqs[1].req.action = "login" /\ ~LoginRaises(reqs[1].resp)

\* method_remove_torrent on a session without a token: the login is answered
\* 'Fails.', the call raises and no request for the removal was sent.
C20_Witness ==
    /\ op.name = "method_remove_torrent"
    /\ ~Truthy(pre.cookies)
    /\ Len(reqs) = 1
    /\ reqs[1].req.action = "login"
    /\ reqs[1].resp.text = "Fails."
    /\ result.raised = QBittorrentRPCException
    /\ ActionReqs = <<>>

-----------------------------------------------------------------------------
(* Two threads on one session.                                             *)

\* The threads whose login request is on its way.
LoginsInFlight == {c \in Callers : callers[c].pc = "login_wait"}

\* The threads whose login stored the token.
TokenWriters == {c \in Callers : callers[c].wrote}

\* C19 (as claimed): on a session that starts without a token and whose
\* backend grants every login it answers, two threads in derived operations
\* issue one login request at most between them, and one login at most
\* stores the token.
C19_LoginSerialized ==
    (\A i \in LoginIdx : LoginGranted(reqs[i].resp)) =>
        /\ Cardinality(LoginIdx) + Cardinality(LoginsInFlight) <= 1
        /\ Cardinality(TokenWriters) <= 1

====
